---- MODULE Spec2Model ----
(***************************************************************************)
(* BrowserGPT: the orchestration loops of agent.py, main.py, agent_v3.py   *)
(* and test_agent.py (LangGraph graphs driven by run_agent), the shared    *)
(* browser singleton of browsertools.py, and the decision functions of     *)
(* agentV2.py (track_progress, progress_checker, execute_action,           *)
(* observe_browser_state, replan_goal, generate_next_action).              *)
(*                                                                         *)
(* The LLM (oracle) and the browser tools are the environment: every       *)
(* response, tool output and exception is a nondeterministic choice.       *)
(***************************************************************************)
EXTENDS Integers, Sequences, FiniteSets, TLC

\* ------------------------------------------------------------------ bounds
\* largest max_steps a run is started with
MaxSteps == 4
\* most Browser objects the process creates
MaxBrowsers == 2
\* most oracle invocations of one run (caps the loops that consume no budget)
MaxCalls == 7
\* longest plan the planner's oracle answers with
MaxPlan == 2

\* ------------------------------------------------------- program constants
\* agent.py: "if state['consecutive_failures'] >= 3"
FailureThreshold == 3

RunIds == {"r1", "r2"}

\* the tools an oracle response can name (browsertools.tools, abridged: one
\* reading tool, one acting tool, and finish_task)
ToolNames == {"read_page", "click_element", "finish_task"}

\* A tool output is a sequence of words; a keyword test is "some word, lower-
\* cased, is the keyword".
Lower(w) ==
    CASE w = "Error" -> "error"
      [] w = "Successfully" -> "successfully"
      [] w = "Timeout" -> "timeout"
      [] w = "COMPLETED" -> "completed"
      [] w = "Welcome" -> "welcome"
      [] w = "Click" -> "click"
      [] w = "Page did not change" -> "page did not change"
      [] w = "Repeated" -> "repeated"
      [] w = "Low remaining" -> "low remaining"
      [] OTHER -> w

Contains(out, kws) == \E i \in 1..Len(out) : Lower(out[i]) \in kws

\* outputs the tools of one run return
ToolOutputs ==
    { <<"Successfully">>, <<"Error">>, <<"Timeout", "captcha">>,
      <<"captcha">>, <<"ok">>, <<"navigated to", "error">> }

\* ------------------------------------------------ agent.py: result analysis
analyze_tool_result(output) ==
    IF Contains(output, {"successfully", "completed", "navigated to"})
    THEN "success"
    ELSE IF Contains(output, {"error", "failed", "could not", "timeout", "not find"})
    THEN "failure"
    ELSE IF Contains(output, {"captcha", "blocked", "access denied"})
    THEN "blocked"
    ELSE "unknown"

\* the same tests with the captcha test first
categorize_failure_captcha_first(output) ==
    IF Contains(output, {"captcha"}) THEN "blocked_by_captcha"
    ELSE IF Contains(output, {"timeout"}) THEN "timeout"
    ELSE IF Contains(output, {"not find", "no such element"}) THEN "element_not_found"
    ELSE IF Contains(output, {"selector", "invalid selector"}) THEN "selector_error"
    ELSE IF Contains(output, {"navigation"}) THEN "navigation_error"
    ELSE "unknown"

categorize_failure(output) ==
    IF Contains(output, {"timeout"}) THEN "timeout"
    ELSE IF Contains(output, {"not find", "no such element"}) THEN "element_not_found"
    ELSE IF Contains(output, {"selector", "invalid selector"}) THEN "selector_error"
    ELSE IF Contains(output, {"navigation"}) THEN "navigation_error"
    ELSE IF Contains(output, {"captcha"}) THEN "blocked_by_captcha"
    ELSE "unknown"

\* --------------------------------------------------------------- the state
VARIABLES
    active,            \* the runs of this process (run_agent calls)
    pc,                \* pc[r]: where run r is (graph node, or run_agent's own code)
    st,                \* st[r]: the AgentState dictionary of run r
    exc,               \* exc[r]: an exception is propagating out of run r's graph
    cont,              \* cont[r]: the get_browser call site run r is suspended in
    gh,                \* gh[r]: history counters of run r (not program state)
    browser_instance,  \* browsertools._browser_instance: 0 is None, else index in browsers
    browsers,          \* browsers[b]: state of the b-th Browser object created
    inflight           \* inflight[r]: Browser object run r awaits an operation of, 0 if none

orchVars == <<active, pc, st, exc, cont, gh, browser_instance, browsers, inflight>>

\* agentV2.py keeps no loop of its own: its functions work on the state
\* dictionary and the observation their caller holds
VARIABLES
    state,             \* agentV2.AgentState: steps, max_steps, last_action, all_actions
    last_observation,  \* the observation the caller keeps for the next observe call
    execution_result,  \* what execute_action returned last
    decision,          \* what progress_checker returned last
    progress           \* what track_progress returned last (or that it raised)

trackerVars == <<state, last_observation, execution_result, decision, progress>>

\* a function of the program called on its own: the arguments of the call
\* and what it returned
VARIABLES
    call,              \* the function's name and arguments
    result             \* its return value, NoResult before it has returned

fnVars == <<call, result>>

vars == <<orchVars, trackerVars, fnVars>>

\* run_agent's initial_state (agent.py 345-358, main.py 197-204,
\* agent_v3.py 416-430, test_agent.py 449-461), the keys the graphs read
InitialState(v, m) ==
    [ variant |-> v,
      max_steps |-> m,
      steps |-> 0,
      consecutive_failures |-> 0,
      last_msg |-> "empty",
      last_action |-> "none",
      last_error |-> <<>>,
      failure_type |-> "None",
      page_content |-> 0,          \* "", or read_page's output of cycle n
      all_actions |-> <<>>,
      successful_actions |-> <<>>,
      plan |-> 0,                  \* agent_v3: len(plan)
      current_plan_step |-> 0,
      dom_candidates |-> <<>>,     \* agent_v3: the candidates' types
      chosen_element |-> "None",
      current_plan |-> <<>>,       \* test_agent: the steps still to run
      pending |-> <<>>,            \* test_agent: response.tool_calls still to run
      task_complete |-> FALSE,
      extracted_data |-> FALSE ]   \* test_agent: extracted_data is non-empty

InitialHistory ==
    [ oracle_calls |-> 0,      \* LLM invocations so far
      tool_execs |-> 0,        \* tool executions completed so far
      last_status |-> "none",  \* analyze_tool_result of the last output
      finish_seen |-> FALSE,   \* the action selector has answered finish_task
      after_finish |-> 0,      \* oracle calls and browser actions after that
      cycles |-> 0,            \* passes through the graph's executing node
      base |-> 0,              \* steps when the current cycle's selection began
      issued |-> FALSE ]       \* the current cycle went on to execute an action

\* ------------------------------------------------------------ small helpers
SetPc(r, p) == pc' = [pc EXCEPT ![r] = p]

\* the tool call being executed: test_agent walks response.tool_calls, the
\* other graphs run the last message's call
Tool(r) == IF st[r].variant = "test" THEN Head(st[r].pending) ELSE st[r].last_msg

\* hasattr(last_msg, "tool_calls") and last_msg.tool_calls
HasToolCalls(s) == s.last_msg \in ToolNames

\* what an LLM response carries: no tool call, or one tool call
OracleResponses == {"none"} \cup ToolNames

CountCall(r) == [gh[r] EXCEPT !.oracle_calls = @ + 1,
                              !.after_finish = IF gh[r].finish_seen THEN @ + 1 ELSE @]

\* the action selector is asked (a cycle begins) and answers `resp`;
\* finish_task is the finish signal
CountSelect(r, resp) ==
    [CountCall(r) EXCEPT !.finish_seen = @ \/ resp = "finish_task",
                         !.base = st[r].steps,
                         !.issued = FALSE]

\* the graph goes on to its executing node
CountCycle(r) == [gh[r] EXCEPT !.cycles = @ + 1, !.issued = TRUE]

CountExec(r, status) ==
    [gh[r] EXCEPT !.tool_execs = @ + 1,
                  !.last_status = status,
                  !.after_finish = IF gh[r].finish_seen /\ Tool(r) # "finish_task"
                                   THEN @ + 1 ELSE @]

\* An exception leaves the graph: astream re-raises it inside run_agent's try.
\* agent.py 374-376 and main.py 214-218 catch it and go on to finally;
\* agent_v3.py 432-435 has no except, finally runs and the exception goes on;
\* test_agent.py 481-483 catches it and returns (there is no finally).
Raise(r) ==
    /\ exc' = [exc EXCEPT ![r] = TRUE]
    /\ SetPc(r, IF st[r].variant = "test" THEN "returned" ELSE "finally")

\* ------------------------------------------------------ browsertools.py
\* the places that call get_browser(), and where the caller is once it has
\* the Browser and awaits its operation
AfterGetBrowser ==
    [ tools |-> "tool_wait", exec_tool |-> "tool_wait", finally |-> "closing",
      extract_dom |-> "extract_wait", executor |-> "executor_wait",
      read_and_validate |-> "read_wait" ]

ToolSites == {"tools", "exec_tool"}

GetBrowserSites == DOMAIN AfterGetBrowser

\* get_browser, lines 8-13: the instance exists, or is created and started
get_browser(r) ==
    /\ r \in active
    /\ pc[r] \in GetBrowserSites
    /\ pc[r] \in ToolSites => Tool(r) # "finish_task"
    /\ pc[r] = "executor" => st[r].chosen_element # "None"
    /\ IF browser_instance = 0
       THEN /\ Len(browsers) < MaxBrowsers
            /\ browsers' = Append(browsers, "starting")
            /\ browser_instance' = Len(browsers) + 1
            /\ inflight' = [inflight EXCEPT ![r] = Len(browsers) + 1]
            /\ cont' = [cont EXCEPT ![r] = pc[r]]
            /\ SetPc(r, "start_browser")
       ELSE /\ inflight' = [inflight EXCEPT ![r] = browser_instance]
            /\ SetPc(r, AfterGetBrowser[pc[r]])
            /\ UNCHANGED <<browsers, browser_instance, cont>>
    /\ UNCHANGED <<active, st, exc, gh, trackerVars, fnVars>>

\* get_browser, lines 14-16: start() returns and the caller gets the global
Browser_start_ok(r) ==
    /\ pc[r] = "start_browser"
    /\ browsers' = [browsers EXCEPT ![inflight[r]] = "started"]
    /\ IF browser_instance # 0
       THEN /\ inflight' = [inflight EXCEPT ![r] = browser_instance]
            /\ SetPc(r, AfterGetBrowser[cont[r]])
            /\ UNCHANGED exc
       ELSE /\ inflight' = [inflight EXCEPT ![r] = 0]
            /\ Raise(r)
    /\ UNCHANGED <<active, st, cont, gh, browser_instance, trackerVars, fnVars>>

\* browserplugin.py Browser.start 61-63: start() raises; the half-made
\* instance stays in _browser_instance. The caller's own handling follows.
Browser_start_fails(r) ==
    /\ pc[r] = "start_browser"
    /\ browsers' = [browsers EXCEPT ![inflight[r]] = "unstarted"]
    /\ inflight' = [inflight EXCEPT ![r] = 0]
    /\ IF cont[r] = "finally" /\ st[r].variant \in {"agent", "main"}
       THEN \* agent.py 381-382, main.py 223-224: cleanup failure is swallowed
            /\ SetPc(r, "returned")
            /\ UNCHANGED exc
       ELSE IF cont[r] = "finally"
       THEN \* agent_v3.py 435-437: nothing catches it
            /\ SetPc(r, "raised")
            /\ exc' = [exc EXCEPT ![r] = TRUE]
       ELSE IF cont[r] = "tools"
       THEN \* inside a tool: ToolNode either lets the exception through or
            \* turns it into the tool's output message
            \/ Raise(r)
            \/ SetPc(r, "tool_wait") /\ UNCHANGED exc
       ELSE IF cont[r] = "exec_tool"
       THEN \* test_agent.py 156-157: logged, the loop over tool_calls goes on
            SetPc(r, "tool_failed") /\ UNCHANGED exc
       ELSE IF cont[r] = "read_and_validate"
       THEN \* test_agent.py 203-205: logged, the state is returned as it is
            SetPc(r, "test_router") /\ UNCHANGED exc
       ELSE Raise(r)
    /\ UNCHANGED <<active, st, cont, gh, browser_instance, trackerVars, fnVars>>

\* Browser.close 413-426: every error inside is logged, none leaves
Browser_close(b) ==
    {[browsers EXCEPT ![b] = IF @ = "started" THEN "closed" ELSE @],
     [browsers EXCEPT ![b] = IF @ = "started" THEN "close_error" ELSE @]}

\* finish_task 449-463 -> cleanup_browser 19-25 (close, then forget the instance)
cleanup_browser(r) ==
    /\ r \in active
    /\ pc[r] \in ToolSites /\ Tool(r) = "finish_task"
    /\ IF browser_instance # 0
       THEN /\ inflight' = [inflight EXCEPT ![r] = browser_instance]
            /\ SetPc(r, "cleanup_wait")
       ELSE /\ SetPc(r, "tool_wait")
            /\ UNCHANGED inflight
    /\ UNCHANGED <<active, st, exc, cont, gh, browser_instance, browsers, trackerVars, fnVars>>

cleanup_browser_done(r) ==
    /\ pc[r] = "cleanup_wait"
    /\ browsers' \in Browser_close(inflight[r])
    /\ browser_instance' = 0
    /\ inflight' = [inflight EXCEPT ![r] = 0]
    /\ SetPc(r, "tool_wait")
    /\ UNCHANGED <<active, st, exc, cont, gh, trackerVars, fnVars>>

\* the tool's coroutine returns its output string to ToolNode
ToolOutputOf(tool) ==
    IF tool = "finish_task" THEN {<<"TASK", "COMPLETED">>} ELSE ToolOutputs

\* ------------------------------------------------------------- agent.py
TooManyFailuresLate(s) == s.consecutive_failures > FailureThreshold

\* agent.py 129 and 301: the failure streak has reached the threshold
TooManyFailures(s) == s.consecutive_failures >= FailureThreshold

\* agent_node 117-179
agent_node(r) ==
    /\ r \in active
    /\ pc[r] = "agent" /\ st[r].variant = "agent"
    /\ IF st[r].steps >= st[r].max_steps \/ TooManyFailures(st[r])
       THEN \* 121-136: an AIMessage without tool calls, steps untouched
            /\ st' = [st EXCEPT ![r].last_msg = "none"]
            /\ SetPc(r, "router")
            /\ UNCHANGED <<gh, exc>>
       ELSE /\ gh[r].oracle_calls < MaxCalls
            /\ \/ \E resp \in OracleResponses :
                    /\ st' = [st EXCEPT ![r].last_msg = resp,
                                        ![r].steps = @ + 1]
                    /\ gh' = [gh EXCEPT ![r] = CountSelect(r, resp)]
                    /\ SetPc(r, "router")
                    /\ UNCHANGED exc
               \/ \* 171-173: llm.ainvoke raised, re-raised
                  /\ gh' = [gh EXCEPT ![r] = CountCall(r)]
                  /\ Raise(r)
                  /\ UNCHANGED st
    /\ UNCHANGED <<active, cont, browser_instance, browsers, inflight, trackerVars, fnVars>>

\* a router without the budget test of 297-299
router_ignores_budget(s) ==
    IF TooManyFailures(s) THEN "end"
    ELSE IF HasToolCalls(s)
    THEN (IF s.last_msg = "finish_task" THEN "end" ELSE "tools")
    ELSE "end"

\* router 292-318: "tools" or "end"
router(s) ==
    IF s.steps >= s.max_steps THEN "end"
    ELSE IF TooManyFailures(s) THEN "end"
    ELSE IF HasToolCalls(s)
    THEN (IF s.last_msg = "finish_task" THEN "end" ELSE "tools")
    ELSE "end"

\* a tool node that keeps only the newest record instead of line 239's
\* state["all_actions"] + [tool_name]
tool_execution_node_forgets(s, tool_output) ==
    LET status == analyze_tool_result(tool_output)
        failed == status = "failure"
    IN  [s EXCEPT
           !.last_msg = "none",
           !.all_actions = <<s.last_msg>>,
           !.successful_actions = IF status = "success" THEN Append(@, s.last_msg) ELSE @,
           !.consecutive_failures = IF failed THEN @ + 1 ELSE 0,
           !.failure_type = IF failed THEN categorize_failure(tool_output) ELSE "None",
           !.last_error = IF failed THEN tool_output ELSE <<>>,
           !.page_content = IF s.last_msg = "read_page" THEN s.steps ELSE @]

\* a tool node whose else-branch at 212-213 is taken by SUCCESS only: a
\* BLOCKED or UNKNOWN result leaves the streak and the error fields alone
tool_execution_node_success_only(s, tool_output) ==
    LET status == analyze_tool_result(tool_output)
        failed == status = "failure"
        kept == status \in {"blocked", "unknown"}
    IN  [s EXCEPT
           !.last_msg = "none",
           !.all_actions = Append(@, s.last_msg),
           !.successful_actions = IF status = "success" THEN Append(@, s.last_msg) ELSE @,
           !.consecutive_failures = IF failed THEN @ + 1 ELSE IF kept THEN @ ELSE 0,
           !.failure_type = IF failed THEN categorize_failure(tool_output)
                            ELSE IF kept THEN @ ELSE "None",
           !.last_error = IF failed THEN tool_output ELSE IF kept THEN @ ELSE <<>>,
           !.page_content = IF s.last_msg = "read_page" THEN s.steps ELSE @]

\* tool_execution_node 201-247, after the tool returned tool_output
tool_execution_node(s, tool_output) ==
    LET status == analyze_tool_result(tool_output)
        failed == status = "failure"
    IN  [s EXCEPT
           !.last_msg = "none",
           !.all_actions = Append(@, s.last_msg),
           !.successful_actions = IF status = "success" THEN Append(@, s.last_msg) ELSE @,
           !.consecutive_failures = IF failed THEN @ + 1 ELSE 0,
           !.failure_type = IF failed THEN categorize_failure(tool_output) ELSE "None",
           !.last_error = IF failed THEN tool_output ELSE <<>>,
           !.page_content = IF s.last_msg = "read_page" THEN s.steps ELSE @]

\* --------------------------------------------------------------- main.py
\* agent_node 42-124
main_agent_node(r) ==
    /\ r \in active
    /\ pc[r] = "agent" /\ st[r].variant = "main"
    /\ IF st[r].steps >= st[r].max_steps
       THEN \* 44-50
            /\ st[r].steps <= MaxSteps
            /\ st' = [st EXCEPT ![r].last_msg = "none",
                                ![r].steps = @ + 1,
                                ![r].last_action = "max_steps_reached"]
            /\ SetPc(r, "router")
            /\ UNCHANGED <<gh, exc>>
       ELSE /\ gh[r].oracle_calls < MaxCalls
            /\ \/ \E resp \in OracleResponses :
                    /\ st' = [st EXCEPT ![r].last_msg = resp,
                                        ![r].steps = @ + 1]
                    /\ gh' = [gh EXCEPT ![r] = CountSelect(r, resp)]
                    /\ SetPc(r, "router")
                    /\ UNCHANGED exc
               \/ \* 103-117: the call raised; both arms of the handler raise
                  \* (MODEL_OPTIONS has one entry, so MODEL_OPTIONS[1] raises)
                  /\ gh' = [gh EXCEPT ![r] = CountCall(r)]
                  /\ Raise(r)
                  /\ UNCHANGED st
    /\ UNCHANGED <<active, cont, browser_instance, browsers, inflight, trackerVars, fnVars>>

\* router 154-176
main_router(s) ==
    IF s.steps >= s.max_steps THEN "end"
    ELSE IF s.last_action = "finish_task" THEN "end"
    ELSE IF HasToolCalls(s) THEN "tools"
    ELSE "end"

\* tool_execution_node 126-152
main_tool_execution_node(s, tool_output) ==
    [s EXCEPT !.last_msg = "none", !.last_action = s.last_msg,
              !.page_content = IF s.last_msg = "read_page" THEN s.steps ELSE @]

\* ----------------------------------------------------------- agent_v3.py
\* planner_node 68-90: the plan is the response's non-empty lines
planner_node(r) ==
    /\ r \in active
    /\ pc[r] = "planner"
    /\ gh[r].oracle_calls < MaxCalls
    /\ gh' = [gh EXCEPT ![r] = CountCall(r)]
    /\ \/ \E n \in 0..MaxPlan, resp \in OracleResponses :
            /\ st' = [st EXCEPT ![r].plan = n,
                                ![r].current_plan_step = 0,
                                ![r].last_msg = resp]
            /\ SetPc(r, "agent")
            /\ UNCHANGED exc
       \/ Raise(r) /\ UNCHANGED st
    /\ UNCHANGED <<active, cont, browser_instance, browsers, inflight, trackerVars, fnVars>>

\* agent_node 96-144
v3_agent_node(r) ==
    /\ r \in active
    /\ pc[r] = "agent" /\ st[r].variant = "v3"
    /\ IF st[r].steps >= st[r].max_steps
       THEN \* 97-102: no message is added
            /\ st[r].steps <= MaxSteps + MaxCalls
            /\ st' = [st EXCEPT ![r].steps = @ + 1,
                                ![r].last_action = "max_steps_reached"]
            /\ SetPc(r, "router")
            /\ UNCHANGED <<gh, exc>>
       ELSE /\ gh[r].oracle_calls < MaxCalls
            /\ \/ \E resp \in OracleResponses :
                    /\ st' = [st EXCEPT ![r].last_msg = resp,
                                        ![r].steps = @ + 1]
                    /\ gh' = [gh EXCEPT ![r] = CountSelect(r, resp)]
                    /\ SetPc(r, "router")
                    /\ UNCHANGED exc
               \/ /\ gh' = [gh EXCEPT ![r] = CountCall(r)]
                  /\ Raise(r)
                  /\ UNCHANGED st
    /\ UNCHANGED <<active, cont, browser_instance, browsers, inflight, trackerVars, fnVars>>

\* router 373-381
v3_router(s) ==
    IF s.last_action = "finish_task" THEN "end"
    ELSE IF HasToolCalls(s) THEN "tools"
    ELSE "end"

\* tool_execution_node 150-180
v3_tool_execution_node(s, tool_output) ==
    [s EXCEPT !.last_msg = "none", !.last_action = s.last_msg,
              !.page_content = IF s.last_msg = "read_page" THEN s.steps ELSE @]

\* extract_dom_node 194-260, once get_browser() has returned: the locator
\* calls raise on a browser without a page, else the candidates are listed
extract_dom_node(r) ==
    /\ pc[r] = "extract_wait"
    /\ inflight' = [inflight EXCEPT ![r] = 0]
    /\ \/ /\ browsers[inflight[r]] = "started"
          /\ \E c \in {<<>>, <<"input">>, <<"button">>} :
                st' = [st EXCEPT ![r].dom_candidates = c]
          /\ SetPc(r, "choose_element")
          /\ UNCHANGED exc
       \/ Raise(r) /\ UNCHANGED st
    /\ UNCHANGED <<active, cont, gh, browser_instance, browsers, trackerVars, fnVars>>

\* choose_element_node 266-308
choose_element_node(r) ==
    /\ r \in active
    /\ pc[r] = "choose_element"
    /\ IF st[r].dom_candidates = <<>>
       THEN /\ st' = [st EXCEPT ![r].chosen_element = "None"]
            /\ SetPc(r, "executor")
            /\ UNCHANGED <<gh, exc>>
       ELSE /\ gh[r].oracle_calls < MaxCalls
            /\ gh' = [gh EXCEPT ![r] = CountCall(r)]
            /\ \/ \E resp \in OracleResponses, digit \in BOOLEAN :
                    /\ st' = [st EXCEPT
                                 ![r].chosen_element =
                                     IF digit THEN st[r].dom_candidates[1] ELSE "None",
                                 ![r].last_msg = resp]
                    /\ SetPc(r, "executor")
                    /\ UNCHANGED exc
               \/ Raise(r) /\ UNCHANGED st
    /\ UNCHANGED <<active, cont, browser_instance, browsers, inflight, trackerVars, fnVars>>

\* executor_node 314-317: nothing chosen
executor_skip(r) ==
    /\ r \in active
    /\ pc[r] = "executor" /\ st[r].chosen_element = "None"
    /\ SetPc(r, "verifier")
    /\ UNCHANGED <<active, st, exc, cont, gh, browser_instance, browsers, inflight, trackerVars, fnVars>>

\* executor_node 319-335: browser.type / browser.click on the chosen element
executor_node(r) ==
    /\ pc[r] = "executor_wait"
    /\ inflight' = [inflight EXCEPT ![r] = 0]
    /\ gh' = [gh EXCEPT ![r].after_finish = IF gh[r].finish_seen THEN @ + 1 ELSE @]
    /\ \/ /\ st' = [st EXCEPT
                       ![r].last_action =
                           IF st[r].chosen_element = "input" THEN "interacted_input"
                                                             ELSE "interacted_button",
                       ![r].chosen_element = "None"]
          /\ SetPc(r, "verifier")
          /\ UNCHANGED exc
       \/ Raise(r) /\ UNCHANGED st
    /\ UNCHANGED <<active, cont, browser_instance, browsers, trackerVars, fnVars>>

\* a verifier whose "yes" moves the cursor on without the min() of 359-362
verifier_node_unclamped(r) ==
    /\ r \in active
    /\ pc[r] = "verifier"
    /\ gh[r].oracle_calls < MaxCalls
    /\ gh' = [gh EXCEPT ![r] = CountCall(r)]
    /\ \/ \E yes \in BOOLEAN :
            /\ st' = [st EXCEPT ![r] =
                        IF yes
                        THEN [@ EXCEPT !.current_plan_step = @ + 1]
                        ELSE [@ EXCEPT !.steps = @ + 1]]
            /\ SetPc(r, "agent")
            /\ UNCHANGED exc
       \/ Raise(r) /\ UNCHANGED st
    /\ UNCHANGED <<active, cont, browser_instance, browsers, inflight, trackerVars, fnVars>>

\* verifier_node 341-367
verifier_node(r) ==
    /\ r \in active
    /\ pc[r] = "verifier"
    /\ gh[r].oracle_calls < MaxCalls
    /\ gh' = [gh EXCEPT ![r] = CountCall(r)]
    /\ \/ \E yes \in BOOLEAN :
            /\ st' = [st EXCEPT ![r] =
                        IF yes
                        THEN [@ EXCEPT !.current_plan_step =
                                 IF @ + 1 < st[r].plan THEN @ + 1 ELSE st[r].plan]
                        ELSE [@ EXCEPT !.steps = @ + 1]]
            /\ SetPc(r, "agent")
            /\ UNCHANGED exc
       \/ Raise(r) /\ UNCHANGED st
    /\ UNCHANGED <<active, cont, browser_instance, browsers, inflight, trackerVars, fnVars>>

\* ---------------------------------------------------------- test_agent.py
\* the tool calls one execution response carries: none, one call (of a tool,
\* or of a name that is no tool: line 148 looks the name up), or two calls
TestToolCalls == ToolNames \cup {"data_invalid"}

ResponseToolCalls ==
    {<<>>} \cup {<<t>> : t \in TestToolCalls} \cup {<<"click_element", "read_page">>}

\* the plan an answer with n actions installs: the step descriptions, in
\* the answer's order (test_agent.py 94, 284)
PlanOf(n) == [i \in 1..n |-> i]

\* intent_parser_node 79-107
intent_parser_node(r) ==
    /\ r \in active
    /\ pc[r] = "intent_parser"
    /\ gh[r].oracle_calls < MaxCalls
    /\ gh' = [gh EXCEPT ![r] = CountCall(r)]
    /\ \/ \E n \in 0..MaxPlan :
            st' = [st EXCEPT ![r].current_plan = PlanOf(n), ![r].steps = 0]
       \/ \* 103-107: the call raised
          st' = [st EXCEPT ![r].last_action = "intent_parse_failed",
                           ![r].task_complete = FALSE]
    /\ SetPc(r, "execute_step")
    /\ UNCHANGED <<active, exc, cont, browser_instance, browsers, inflight, trackerVars, fnVars>>

\* execute_step_node 109-133: the plan's first step is given to the oracle
execute_step_node(r) ==
    /\ r \in active
    /\ pc[r] = "execute_step"
    /\ IF st[r].current_plan = <<>>
       THEN \* 112-115
            /\ st' = [st EXCEPT ![r].task_complete = TRUE]
            /\ SetPc(r, "read_and_validate")
            /\ UNCHANGED gh
       ELSE /\ gh[r].oracle_calls < MaxCalls
            /\ \/ \E calls \in ResponseToolCalls :
                    /\ st' = [st EXCEPT ![r].pending = calls]
                    /\ gh' = [gh EXCEPT ![r] =
                                 [CountSelect(r, "none") EXCEPT
                                     !.finish_seen = @ \/ \E i \in 1..Len(calls) :
                                                             calls[i] = "finish_task",
                                     !.cycles = @ + 1,
                                     !.issued = calls # <<>>]]
                    /\ SetPc(r, "execute_step_loop")
               \/ \* 162-165: the call raised
                  /\ st' = [st EXCEPT ![r].task_complete = TRUE]
                  /\ gh' = [gh EXCEPT ![r] = CountCall(r)]
                  /\ SetPc(r, "read_and_validate")
    /\ UNCHANGED <<active, exc, cont, browser_instance, browsers, inflight, trackerVars, fnVars>>

\* a loop that ends by dropping the plan's last step, plan[:-1], not its first
execute_step_call_drops_last(r) ==
    /\ r \in active
    /\ pc[r] = "execute_step_loop"
    /\ IF st[r].pending = <<>>
       THEN \* 159: plan[1:]
            /\ st' = [st EXCEPT ![r].current_plan = SubSeq(@, 1, Len(@) - 1)]
            /\ SetPc(r, "read_and_validate")
       ELSE LET tool_name == Head(st[r].pending)
                known == tool_name \in ToolNames
            IN  /\ st' = [st EXCEPT
                             ![r].steps = @ + 1,
                             ![r].last_action = tool_name,
                             ![r].all_actions = Append(@, tool_name),
                             ![r].pending = IF known THEN @ ELSE Tail(@)]
                /\ SetPc(r, IF known THEN "exec_tool" ELSE "execute_step_loop")
    /\ UNCHANGED <<active, exc, cont, gh, browser_instance, browsers, inflight, trackerVars, fnVars>>

\* execute_step_node 137-160: the loop over response.tool_calls; the
\* bookkeeping of a call comes before its execution
execute_step_call(r) ==
    /\ r \in active
    /\ pc[r] = "execute_step_loop"
    /\ IF st[r].pending = <<>>
       THEN \* 159: plan[1:]
            /\ st' = [st EXCEPT ![r].current_plan = Tail(@)]
            /\ SetPc(r, "read_and_validate")
       ELSE LET tool_name == Head(st[r].pending)
                known == tool_name \in ToolNames
            IN  /\ st' = [st EXCEPT
                             ![r].steps = @ + 1,
                             ![r].last_action = tool_name,
                             ![r].all_actions = Append(@, tool_name),
                             ![r].pending = IF known THEN @ ELSE Tail(@)]
                /\ SetPc(r, IF known THEN "exec_tool" ELSE "execute_step_loop")
    /\ UNCHANGED <<active, exc, cont, gh, browser_instance, browsers, inflight, trackerVars, fnVars>>

\* execute_step_node 156-157: the tool raised, the error is logged
tool_failed(r) ==
    /\ pc[r] = "tool_failed"
    /\ st' = [st EXCEPT ![r].pending = Tail(@)]
    /\ SetPc(r, "execute_step_loop")
    /\ UNCHANGED <<active, exc, cont, gh, browser_instance, browsers, inflight, trackerVars, fnVars>>

\* read_and_filter_node 167-205, once get_browser() has returned: the page
\* is read and the oracle filters it; an exception only ends the node
read_and_filter_node(r) ==
    /\ pc[r] = "read_wait"
    /\ inflight' = [inflight EXCEPT ![r] = 0]
    /\ gh[r].oracle_calls < MaxCalls
    /\ gh' = [gh EXCEPT ![r] = CountCall(r)]
    /\ SetPc(r, "test_router")
    /\ UNCHANGED <<active, st, exc, cont, browser_instance, browsers, trackerVars, fnVars>>

\* intelligent_router 351-387
intelligent_router(s) ==
    IF s.task_complete THEN "END"
    ELSE IF s.steps >= s.max_steps THEN "data_extraction"
    ELSE IF s.last_action = "data_invalid" THEN "replanning"
    ELSE IF s.last_action = "data_validated" /\ ~s.extracted_data THEN "data_extraction"
    ELSE IF s.last_action = "data_validated" /\ s.extracted_data THEN "END"
    ELSE IF s.current_plan = <<>> THEN "data_extraction"
    ELSE "execute_step"

\* the conditional edges 412-433; END makes graph.ainvoke return, and
\* run_agent returns final_state (464-479)
test_route(r) ==
    /\ r \in active
    /\ pc[r] = "test_router"
    /\ SetPc(r, IF intelligent_router(st[r]) = "END" THEN "returned"
                ELSE intelligent_router(st[r]))
    /\ UNCHANGED <<active, st, exc, cont, gh, browser_instance, browsers, inflight, trackerVars, fnVars>>

\* final_extraction_node 297-330
final_extraction_node(r) ==
    /\ r \in active
    /\ pc[r] = "data_extraction"
    /\ gh[r].oracle_calls < MaxCalls
    /\ gh' = [gh EXCEPT ![r] = CountCall(r)]
    /\ \/ \E data \in BOOLEAN, success \in BOOLEAN :
            st' = [st EXCEPT ![r].extracted_data = data,
                             ![r].task_complete = success]
       \/ st' = [st EXCEPT ![r].task_complete = TRUE]
    /\ SetPc(r, "update_progress")
    /\ UNCHANGED <<active, exc, cont, browser_instance, browsers, inflight, trackerVars, fnVars>>

\* update_progress_node 333-348
update_progress_node(r) ==
    /\ r \in active
    /\ pc[r] = "update_progress"
    /\ st' = [st EXCEPT ![r].task_complete =
                 IF st[r].steps >= st[r].max_steps THEN TRUE ELSE @]
    /\ SetPc(r, "test_router")
    /\ UNCHANGED <<active, exc, cont, gh, browser_instance, browsers, inflight, trackerVars, fnVars>>

\* replanning_node 262-295
replanning_node(r) ==
    /\ r \in active
    /\ pc[r] = "replanning"
    /\ gh[r].oracle_calls < MaxCalls
    /\ gh' = [gh EXCEPT ![r] = CountCall(r)]
    /\ \/ \E n \in 0..MaxPlan :
            st' = [st EXCEPT ![r].current_plan = PlanOf(n), ![r].steps = 0]
       \/ st' = [st EXCEPT ![r].task_complete = TRUE]
    /\ SetPc(r, "read_and_validate")
    /\ UNCHANGED <<active, exc, cont, browser_instance, browsers, inflight, trackerVars, fnVars>>

\* ------------------------------------------------- the graphs' wiring
Route(s) ==
    CASE s.variant = "agent" -> router(s)
      [] s.variant = "main" -> main_router(s)
      [] OTHER -> v3_router(s)

\* the state a graph's tool node leaves, per graph
AfterTool(s, tool_output) ==
    CASE s.variant = "agent" -> tool_execution_node(s, tool_output)
      [] s.variant = "main" -> main_tool_execution_node(s, tool_output)
      [] s.variant = "v3" -> v3_tool_execution_node(s, tool_output)
      [] OTHER -> [s EXCEPT !.pending = Tail(@)]

\* agent.py 332, main.py 185: tools -> agent; agent_v3.py 401: tools ->
\* extract_dom; test_agent.py 137-157: the loop over tool_calls goes on
NodeAfterTools(s) ==
    CASE s.variant \in {"agent", "main"} -> "agent"
      [] s.variant = "v3" -> "extract_dom"
      [] OTHER -> "execute_step_loop"

\* the conditional edge after "agent" (agent.py 331, main.py 184,
\* agent_v3.py 400); END leads to run_agent's finally
agent_route(r) ==
    /\ r \in active
    /\ pc[r] = "router"
    /\ SetPc(r, IF Route(st[r]) = "tools" THEN "tools" ELSE "finally")
    /\ gh' = [gh EXCEPT ![r] = IF Route(st[r]) = "tools" THEN CountCycle(r) ELSE @]
    /\ UNCHANGED <<active, st, exc, cont, browser_instance, browsers, inflight, trackerVars, fnVars>>

\* the awaited tool returns (agent.py 194-199)
tool_return(r) ==
    /\ pc[r] = "tool_wait"
    /\ \E out \in ToolOutputOf(Tool(r)) :
          /\ st' = [st EXCEPT ![r] = AfterTool(st[r], out)]
          /\ gh' = [gh EXCEPT ![r] = CountExec(r, analyze_tool_result(out))]
    /\ inflight' = [inflight EXCEPT ![r] = 0]
    /\ SetPc(r, NodeAfterTools(st[r]))
    /\ UNCHANGED <<active, exc, cont, browser_instance, browsers, trackerVars, fnVars>>

\* ------------------------------------------------------------ run_agent
\* agent.py 340-362, main.py 189-208, agent_v3.py 413-434,
\* test_agent.py 441-464: the graph is entered at its entry point
EntryPoint(v) ==
    CASE v \in {"agent", "main"} -> "agent"
      [] v = "v3" -> "planner"
      [] OTHER -> "intent_parser"

run_agent(r) ==
    /\ r \in active
    /\ pc[r] = "start"
    /\ SetPc(r, EntryPoint(st[r].variant))
    /\ UNCHANGED <<active, st, exc, cont, gh, browser_instance, browsers, inflight, trackerVars, fnVars>>

\* finally: browser.close() on what get_browser() returned
\* (agent.py 377-380, main.py 219-222, agent_v3.py 435-438)
finally_close(r) ==
    /\ pc[r] = "closing"
    /\ browsers' \in Browser_close(inflight[r])
    /\ inflight' = [inflight EXCEPT ![r] = 0]
    /\ SetPc(r, IF st[r].variant = "v3" /\ exc[r] THEN "raised" ELSE "returned")
    /\ UNCHANGED <<active, st, exc, cont, gh, browser_instance, trackerVars, fnVars>>

Done(r) == pc[r] \in {"returned", "raised"}

\* ------------------------------------------------------------ agentV2.py
\* largest max_steps an agentV2 state is created with
MaxBudget == 7
\* lines of a page that fall inside content[:3000], the hashed prefix
HashLines == 3
\* lines of a page that fall inside normalized_content[:500], the preview
PreviewLines == 2

\* the action keys "tool|args" the caller's plan holds, and a tool name
\* that is not in tool_map
ActionKeys == {"click|#a", "read_page|"}

UnknownTool == "teleport|"

\* pages as the lines of read_page's output; a line stands for text that
\* holds a keyword only as the whole line
PageOutputs ==
    { <<"URL: a", "Title: t", "hello">>,
      <<"URL: a", "Title: t", "Welcome">>,
      <<"Welcome", "URL: b">> }

\* progress_checker 280-287: the default success_keywords, in list order
SuccessKeywords ==
    <<"success", "completed", "results", "thank you", "welcome", "dashboard">>

NoResult == [kind |-> "none"]

InitialAgentState(m) ==
    [steps |-> 0, max_steps |-> m, last_action |-> "", all_actions |-> <<>>]

Prefix(seq, n) == SubSeq(seq, 1, IF Len(seq) < n THEN Len(seq) ELSE n)

LastN(seq, n) == SubSeq(seq, Len(seq) - n + 1, Len(seq))

\* collections.Counter(last_actions)[k]
Count(seq, k) == Cardinality({i \in 1..Len(seq) : seq[i] = k})

\* every one of the four is the same action
RepeatingAll(last_actions) ==
    \E k \in ActionKeys : Count(last_actions, k) >= 4

\* track_progress 162-166: any(count >= 3 for count in counts.values())
Repeating(last_actions) ==
    \E k \in ActionKeys : Count(last_actions, k) >= 3

\* progress_pct as the exact fraction num/den: min((steps / max_steps) * 100, 100.0)
ProgressPct(steps, max_steps) ==
    IF steps >= max_steps THEN [num |-> 100, den |-> 1]
    ELSE [num |-> steps * 100, den |-> max_steps]

\* track_progress 130-196; line 144 divides before line 149 looks at the budget
track_progress(s) ==
    LET actions == s.all_actions
        Ret(status, reason, stop) ==
            [kind |-> "return", status |-> status, reason |-> reason,
             progress_pct |-> ProgressPct(s.steps, s.max_steps), should_stop |-> stop]
    IN  IF s.max_steps = 0
        THEN [kind |-> "raise", error |-> "ZeroDivisionError"]
        ELSE IF s.steps >= s.max_steps
        THEN Ret("finish", "Maximum steps reached", TRUE)
        ELSE IF Len(actions) >= 4 /\ Repeating(LastN(actions, 4))
        THEN Ret("retry", "Agent is repeating the same action", FALSE)
        ELSE IF Len(actions) >= 3
                /\ actions[Len(actions)] = actions[Len(actions) - 1]
                /\ actions[Len(actions) - 1] = actions[Len(actions) - 2]
        THEN Ret("retry", "No visible progress detected", FALSE)
        ELSE Ret("continue", "Agent progressing normally", FALSE)

\* line.startswith(marker), for the markers "URL:" and "Title:"
StartsWith(line, marker) ==
    CASE marker = "URL:" -> line \in {"URL: a", "URL: b"}
      [] marker = "Title:" -> line \in {"Title: t", "Title: u"}
      [] OTHER -> FALSE

\* line.replace(marker, "").strip()
LineValue(line) ==
    CASE line = "URL: a" -> "a"
      [] line = "URL: b" -> "b"
      [] line = "Title: t" -> "t"
      [] line = "Title: u" -> "u"
      [] OTHER -> ""

\* observe_browser_state 216-228: the last matching line wins, "" becomes "unknown"
ExtractField(content, marker) ==
    LET at == {i \in 1..Len(content) : StartsWith(content[i], marker)}
        last == CHOOSE i \in at : \A j \in at : j <= i
        value == IF at = {} THEN "" ELSE LineValue(content[last])
    IN  IF value = "" THEN "unknown" ELSE value

\* text.encode("utf-8", errors="ignore"): what cannot be encoded is dropped
Utf8Ignore(line) == IF line = "hello<D800>" THEN "hello" ELSE line

\* _hash_text 197-198: SHA-256 of the encoded text, taken as injective on
\* the bytes it is given
hash_text(text) == [i \in 1..Len(text) |-> Utf8Ignore(text[i])]

\* the same function with the URL compared before the content hash
observe_browser_state_url_first(page_content, last) ==
    LET url == ExtractField(page_content, "URL:")
        title == ExtractField(page_content, "Title:")
        normalized_content == Prefix(page_content, HashLines)
        content_hash == hash_text(normalized_content)
        diff == IF last.kind = "none" THEN <<FALSE, "initial observation">>
                ELSE IF url # last.url THEN <<TRUE, "URL changed">>
                ELSE IF content_hash # last.content_hash
                THEN <<TRUE, "page content changed">>
                ELSE IF title # last.title THEN <<TRUE, "title changed">>
                ELSE <<FALSE, "no significant change">>
    IN  [kind |-> "observation",
         url |-> url,
         title |-> title,
         content_hash |-> content_hash,
         content_preview |-> Prefix(normalized_content, PreviewLines),
         changed |-> diff[1],
         change_reason |-> diff[2]]

\* observe_browser_state 201-268; last is the previous observation or NoResult
observe_browser_state(page_content, last) ==
    LET url == ExtractField(page_content, "URL:")
        title == ExtractField(page_content, "Title:")
        normalized_content == Prefix(page_content, HashLines)
        content_hash == hash_text(normalized_content)
        diff == IF last.kind = "none" THEN <<FALSE, "initial observation">>
                ELSE IF content_hash # last.content_hash
                THEN <<TRUE, "page content changed">>
                ELSE IF url # last.url THEN <<TRUE, "URL changed">>
                ELSE IF title # last.title THEN <<TRUE, "title changed">>
                ELSE <<FALSE, "no significant change">>
    IN  [kind |-> "observation",
         url |-> url,
         title |-> title,
         content_hash |-> content_hash,
         content_preview |-> Prefix(normalized_content, PreviewLines),
         changed |-> diff[1],
         change_reason |-> diff[2]]

\* observation.get("changed", True): an observation that was never made
\* counts as changed
Changed(obs) == IF obs.kind = "none" THEN TRUE ELSE obs.changed

\* observation.get("content_preview", "")
Preview(obs) == IF obs.kind = "none" THEN <<>> ELSE obs.content_preview

\* keyword in content_preview.lower()
KeywordIn(preview, keyword) == Contains(preview, {keyword})

\* (max_steps - steps) / max_steps < 0.15, as a comparison of integers
LowBudget(s) == (s.max_steps - s.steps) * 100 < 15 * s.max_steps

LastThreeSame(actions) ==
    /\ Len(actions) >= 3
    /\ Cardinality({LastN(actions, 3)[i] : i \in 1..3}) = 1

Verdict(d, reason, keyword, confidence) ==
    [kind |-> "return", decision |-> d, reason |-> reason,
     keyword |-> keyword, confidence |-> confidence]

\* the same rules with the budget rule tried before the repetition rule
progress_checker_budget_first(s, observation) ==
    LET hits == {i \in 1..Len(SuccessKeywords) :
                    KeywordIn(Preview(observation), SuccessKeywords[i])}
    IN  IF s.steps >= s.max_steps
        THEN Verdict("finish", "Maximum step limit reached", "", 95)
        ELSE IF hits # {}
        THEN Verdict("finish", "Detected success signal",
                     SuccessKeywords[CHOOSE i \in hits : \A j \in hits : i <= j], 90)
        ELSE IF ~Changed(observation)
        THEN Verdict("retry", "Page did not change after action", "", 70)
        ELSE IF LowBudget(s)
        THEN Verdict("replan", "Low remaining steps, replanning required", "", 60)
        ELSE IF LastThreeSame(s.all_actions)
        THEN Verdict("replan", "Repeated identical actions with no success", "", 85)
        ELSE Verdict("continue", "Progress appears normal", "", 80)

\* progress_checker 270-360; the confidences are in hundredths
progress_checker(s, observation) ==
    LET hits == {i \in 1..Len(SuccessKeywords) :
                    KeywordIn(Preview(observation), SuccessKeywords[i])}
    IN  IF s.steps >= s.max_steps
        THEN Verdict("finish", "Maximum step limit reached", "", 95)
        ELSE IF hits # {}
        THEN Verdict("finish", "Detected success signal",
                     SuccessKeywords[CHOOSE i \in hits : \A j \in hits : i <= j], 90)
        ELSE IF ~Changed(observation)
        THEN Verdict("retry", "Page did not change after action", "", 70)
        ELSE IF LastThreeSame(s.all_actions)
        THEN Verdict("replan", "Repeated identical actions with no success", "", 85)
        ELSE IF LowBudget(s)
        THEN Verdict("replan", "Low remaining steps, replanning required", "", 60)
        ELSE Verdict("continue", "Progress appears normal", "", 80)

\* what awaiting tool_fn(args) ends with: an output, or an exception
ToolOutcomes ==
    {[raised |-> FALSE, output |-> o] : o \in {<<"Successfully">>, <<"Error">>, <<"Timeout">>}}
    \cup {[raised |-> TRUE, output |-> <<>>]}

\* output.lower().startswith("error")
StartsWithError(output) == Len(output) > 0 /\ Lower(output[1]) = "error"

\* an execute_action whose check at 537 comes after the bookkeeping of
\* 571-575: the unknown tool is recorded and counted as a step
execute_action_records_unknown ==
    /\ state.steps <= state.max_steps
    /\ \E action_key \in ActionKeys \cup {UnknownTool}, outcome \in ToolOutcomes :
          /\ execution_result' =
                IF action_key = UnknownTool
                THEN [kind |-> "return", success |-> FALSE,
                      output |-> <<>>, error |-> "Unknown tool"]
                ELSE IF outcome.raised
                THEN [kind |-> "return", success |-> FALSE,
                      output |-> <<>>, error |-> "str(e)"]
                ELSE [kind |-> "return",
                      success |-> ~StartsWithError(outcome.output),
                      output |-> outcome.output,
                      error |-> IF StartsWithError(outcome.output)
                                THEN "output" ELSE "None"]
          /\ state' = [state EXCEPT !.last_action = action_key,
                                    !.all_actions = Append(@, action_key),
                                    !.steps = @ + 1]
    /\ decision' = NoResult
    /\ progress' = NoResult
    /\ UNCHANGED <<last_observation, orchVars, fnVars>>

\* execute_action 519-583; the verdicts returned for the state before the
\* action are out of date once it has run
execute_action ==
    /\ state.steps <= state.max_steps
    /\ \E action_key \in ActionKeys \cup {UnknownTool}, outcome \in ToolOutcomes :
          IF action_key = UnknownTool
          THEN \* 537-545
               /\ execution_result' = [kind |-> "return", success |-> FALSE,
                                       output |-> <<>>, error |-> "Unknown tool"]
               /\ UNCHANGED state
          ELSE /\ execution_result' =
                     IF outcome.raised
                     THEN [kind |-> "return", success |-> FALSE,
                           output |-> <<>>, error |-> "str(e)"]
                     ELSE [kind |-> "return",
                           success |-> ~StartsWithError(outcome.output),
                           output |-> outcome.output,
                           error |-> IF StartsWithError(outcome.output)
                                     THEN "output" ELSE "None"]
               /\ state' = [state EXCEPT !.last_action = action_key,
                                         !.all_actions = Append(@, action_key),
                                         !.steps = @ + 1]
    /\ decision' = NoResult
    /\ progress' = NoResult
    /\ UNCHANGED <<last_observation, orchVars, fnVars>>

\* the caller observes the page and keeps the observation; what the earlier
\* calls returned has been used by then
observe ==
    /\ \E page_content \in PageOutputs :
          last_observation' = observe_browser_state(page_content, last_observation)
    /\ execution_result' = NoResult
    /\ decision' = NoResult
    /\ UNCHANGED <<state, progress, orchVars, fnVars>>

\* an evaluation that counts itself as a step of the run
check_progress_counting ==
    /\ decision' = progress_checker(state, last_observation)
    /\ state' = [state EXCEPT !.steps = @ + 1]
    /\ UNCHANGED <<last_observation, execution_result, progress, orchVars, fnVars>>

\* the caller asks progress_checker about the state and observation it holds
check_progress ==
    /\ decision' = progress_checker(state, last_observation)
    /\ UNCHANGED <<state, last_observation, execution_result, progress, orchVars, fnVars>>

\* the caller asks track_progress about the state it holds
track ==
    /\ progress' = track_progress(state)
    /\ UNCHANGED <<state, last_observation, execution_result, decision, orchVars, fnVars>>

\* ------------------------------------------- functions called on their own
\* most words of a tool output or failure reason made up for a call
MaxWords == 2

\* the words such an output is made of: the classifiers' keywords, some as
\* the tools capitalise them, and a word that is no keyword
OutputWords ==
    { "Successfully", "Error", "Timeout", "could not", "not find",
      "no such element", "selector", "navigation", "captcha", "ok" }

TextsOf(words) == UNION {[1..n -> words] : n \in 0..MaxWords}

\* a graph state in which a tool call is about to be executed
StateBeforeTool(failures) ==
    [InitialState("agent", MaxSteps) EXCEPT !.steps = 1,
                                            !.last_msg = "click_element",
                                            !.consecutive_failures = failures]

ClassifierCalls ==
    { [fn |-> "classify", state |-> StateBeforeTool(f), output |-> o] :
        f \in 0..(FailureThreshold - 1), o \in TextsOf(OutputWords) }

Returned(fn, value) == [kind |-> "return", fn |-> fn, value |-> value]

\* analyze_tool_result(output) is called
analyze ==
    /\ call.fn = "classify"
    /\ result' = Returned("analyze_tool_result", analyze_tool_result(call.output))
    /\ UNCHANGED <<call, orchVars, trackerVars>>

\* categorize_failure(output) is called
categorize ==
    /\ call.fn = "classify"
    /\ result' = Returned("categorize_failure", categorize_failure(call.output))
    /\ UNCHANGED <<call, orchVars, trackerVars>>

\* tool_execution_node is called with a state whose tool returns the output
execute_tool ==
    /\ call.fn = "classify"
    /\ result' = Returned("tool_execution_node",
                          tool_execution_node(call.state, call.output))
    /\ UNCHANGED <<call, orchVars, trackerVars>>

\* the words a failure reason is made of: replan_goal's keywords as
\* progress_checker's reasons and the tools' messages spell them, and a word
\* that is no keyword
ReasonWords ==
    { "click", "Click", "selector", "Page did not change", "Repeated",
      "Low remaining", "failed" }

Goals == { <<"find", "flights">>, <<"login">> }

\* the states replan_goal is handed: with the key "goal" it reads, or as
\* the AgentState of agentV2.py declares them, with user_query instead
ReplanStates ==
    {[goal |-> g, last_action |-> "click|#a", steps |-> 1] : g \in Goals}
    \cup {[user_query |-> g, last_action |-> "click|#a", steps |-> 1] : g \in Goals}

ReplanCalls ==
    { [fn |-> "replan_goal", state |-> s, failure_reason |-> r] :
        s \in ReplanStates, r \in TextsOf(ReasonWords) }

\* the same rules with the repetition rule tried first
replan_goal_repeated_first(s, failure_reason) ==
    LET Plan(strategy, rewrite) ==
            [kind |-> "return", new_goal |-> <<rewrite>> \o s.goal,
             strategy |-> strategy, reason |-> failure_reason]
    IN  IF "goal" \notin DOMAIN s THEN [kind |-> "raise", error |-> "KeyError"]
        ELSE IF Contains(failure_reason, {"repeated"})
        THEN Plan("change approach", "Try a different approach to accomplish the goal without repeating previous actions:")
        ELSE IF Contains(failure_reason, {"click", "selector"})
        THEN Plan("broaden selectors and re-read page", "Read the page carefully and find an alternative clickable element to achieve this goal:")
        ELSE IF Contains(failure_reason, {"page did not change"})
        THEN Plan("re-observe and search", "Re-read the page content and decide the next best action to continue toward:")
        ELSE IF Contains(failure_reason, {"low remaining"})
        THEN Plan("goal simplification", "Perform the minimum action required to partially satisfy this goal:")
        ELSE Plan("reset context", "Go back to a safe starting point and reassess how to achieve:")

\* the same rules with a fallback that keeps the goal as it is
replan_goal_keeps_goal(s, failure_reason) ==
    LET Plan(strategy, rewrite) ==
            [kind |-> "return", new_goal |-> <<rewrite>> \o s.goal,
             strategy |-> strategy, reason |-> failure_reason]
    IN  IF "goal" \notin DOMAIN s THEN [kind |-> "raise", error |-> "KeyError"]
        ELSE IF Contains(failure_reason, {"click", "selector"})
        THEN Plan("broaden selectors and re-read page", "Read the page carefully and find an alternative clickable element to achieve this goal:")
        ELSE IF Contains(failure_reason, {"page did not change"})
        THEN Plan("re-observe and search", "Re-read the page content and decide the next best action to continue toward:")
        ELSE IF Contains(failure_reason, {"repeated"})
        THEN Plan("change approach", "Try a different approach to accomplish the goal without repeating previous actions:")
        ELSE IF Contains(failure_reason, {"low remaining"})
        THEN Plan("goal simplification", "Perform the minimum action required to partially satisfy this goal:")
        ELSE [kind |-> "return", new_goal |-> s.goal,
              strategy |-> "reset context", reason |-> failure_reason]

\* replan_goal 366-439; the goal is a sequence of words, and a rewritten
\* goal is the branch's sentence followed by the original goal. Line 376
\* reads state["goal"], a key error when the state has none.
replan_goal(s, failure_reason) ==
    LET Plan(strategy, rewrite) ==
            [kind |-> "return", new_goal |-> <<rewrite>> \o s.goal,
             strategy |-> strategy, reason |-> failure_reason]
    IN  IF "goal" \notin DOMAIN s THEN [kind |-> "raise", error |-> "KeyError"]
        ELSE IF Contains(failure_reason, {"click", "selector"})
        THEN Plan("broaden selectors and re-read page", "Read the page carefully and find an alternative clickable element to achieve this goal:")
        ELSE IF Contains(failure_reason, {"page did not change"})
        THEN Plan("re-observe and search", "Re-read the page content and decide the next best action to continue toward:")
        ELSE IF Contains(failure_reason, {"repeated"})
        THEN Plan("change approach", "Try a different approach to accomplish the goal without repeating previous actions:")
        ELSE IF Contains(failure_reason, {"low remaining"})
        THEN Plan("goal simplification", "Perform the minimum action required to partially satisfy this goal:")
        ELSE Plan("reset context", "Go back to a safe starting point and reassess how to achieve:")

Raised(fn, error) == [kind |-> "raise", fn |-> fn, error |-> error]

\* replan_goal(state, observation, failure_reason) is called; it reads the
\* state and assigns nothing to it, and does not use the observation
replan ==
    /\ call.fn = "replan_goal"
    /\ LET out == replan_goal(call.state, call.failure_reason)
       IN  result' = IF out.kind = "raise"
                     THEN Raised("replan_goal", out.error)
                     ELSE Returned("replan_goal", out)
    /\ UNCHANGED <<call, orchVars, trackerVars>>

\* pages observed one after the other. "hello<D800>" is the line "hello"
\* followed by a lone surrogate, a character UTF-8 cannot encode; the pages
\* of four lines differ from the first page behind the hashed prefix only;
\* one page writes its url and title lines in lower case.
ObservedPages ==
    { <<"hello", "URL: a", "Title: t">>,
      <<"hello", "URL: a", "Title: t", "more">>,
      <<"hello", "URL: a", "Title: t", "URL: b">>,
      <<"hello", "URL: a", "Title: t", "Title: u">>,
      <<"hello<D800>", "URL: a", "Title: t">>,
      <<"hello", "url: a", "title: t">>,
      <<"Welcome", "URL: b">> }

ObserveCalls ==
    { [fn |-> "observe_browser_state", pages |-> <<p, q>>] :
        p \in ObservedPages, q \in ObservedPages }

\* observe_browser_state is called on the first page with no previous
\* observation, then on the second page with what the first call returned
observe_twice ==
    /\ call.fn = "observe_browser_state"
    /\ LET first == observe_browser_state(call.pages[1], NoResult)
       IN  result' = Returned("observe_browser_state",
                              <<first, observe_browser_state(call.pages[2], first)>>)
    /\ UNCHANGED <<call, orchVars, trackerVars>>

\* ---- agent_v3.py planner_node 79-83: the response text becomes the plan
\* a line is the sequence of its characters; str.strip(chars) removes the
\* characters of `chars` from both ends
Strip(line, chars) ==
    LET keep == {i \in 1..Len(line) : line[i] \notin chars}
    IN  IF keep = {} THEN <<>>
        ELSE SubSeq(line, CHOOSE i \in keep : \A j \in keep : i <= j,
                          CHOOSE i \in keep : \A j \in keep : j <= i)

\* str.strip() without argument removes whitespace
Whitespace == {" ", "\t"}

\* [line.strip("- ").strip() for line in content.splitlines() if line.strip()]
plan_lines(content) ==
    LET kept == SelectSeq(content, LAMBDA line : Strip(line, Whitespace) # <<>>)
    IN  [i \in 1..Len(kept) |-> Strip(Strip(kept[i], {"-", " "}), Whitespace)]

\* lines an oracle may answer with: list items with and without a marker,
\* blank lines, a rule of dashes, text that itself ends or begins with a dash
ResponseLines ==
    { <<>>, <<" ">>, <<"-", " ", "a">>, <<"a">>, <<" ", "-", " ", "b", " ">>,
      <<"-", "-", "-">>, <<"-", " ", "\t">>, <<"a", " ", "-">>, <<"-", "5", "a">>,
      <<"1", ".", " ", "a">>, <<"-", " ", "a", " ", "b">> }

PlanCalls ==
    { [fn |-> "planner_node", content |-> c] :
        c \in {<<l>> : l \in ResponseLines}
               \cup {<<l, m>> : l \in ResponseLines, m \in ResponseLines} }

parse_plan ==
    /\ call.fn = "planner_node"
    /\ result' = Returned("planner_node", plan_lines(call.content))
    /\ UNCHANGED <<call, orchVars, trackerVars>>

\* longest ledger of a state generate_next_action is called with
MaxLedger == 2

\* the actions a plan (intent["actions"]) is made of
PlanActions ==
    { [tool |-> "click", args |-> "#a"],
      [tool |-> "read_page", args |-> ""],
      [tool |-> "finish_task", args |-> "done"] }

\* f"{action['tool']}|{action['args']}"
ActionKey(action) ==
    CASE action.tool = "click" -> "click|#a"
      [] action.tool = "read_page" -> "read_page|"
      [] OTHER -> "finish_task|done"

Plans == UNION {[1..n -> PlanActions] : n \in 0..MaxPlan}

\* the states execute_action leaves: last_action is the ledger's last key,
\* and "" while nothing has been executed
SelectStates ==
    { [steps |-> Len(l), max_steps |-> MaxBudget,
       last_action |-> IF l = <<>> THEN "" ELSE l[Len(l)],
       all_actions |-> l] :
        l \in UNION {[1..n -> {ActionKey(a) : a \in PlanActions}] : n \in 0..MaxLedger} }

\* the observations the caller can hold: none, a first one, a later one
SelectObservations ==
    LET first == {observe_browser_state(p, NoResult) : p \in PageOutputs}
    IN  {NoResult} \cup first
        \cup {observe_browser_state(p, o) : p \in PageOutputs, o \in first}

SelectCalls ==
    { [fn |-> "generate_next_action", intent |-> [actions |-> plan],
       state |-> s, observation |-> o] :
        plan \in Plans, s \in SelectStates, o \in SelectObservations }

\* the same selection, answering finish when every candidate is excluded
generate_next_action_gives_up(intent, s, observation) ==
    LET actions == intent.actions
        executed_actions == {s.all_actions[i] : i \in 1..Len(s.all_actions)}
        Skipped(i) ==
            \/ ActionKey(actions[i]) \in executed_actions
            \/ ActionKey(actions[i]) = s.last_action /\ ~Changed(observation)
        open == {i \in 1..Len(actions) : ~Skipped(i)}
        first == CHOOSE i \in open : \A j \in open : i <= j
    IN  IF actions = <<>> \/ open = {}
        THEN [tool |-> "finish_task", args |-> "No remaining actions to execute",
              reason |-> "Action plan exhausted"]
        ELSE [tool |-> actions[first].tool, args |-> actions[first].args,
              reason |-> "Next planned action"]

\* generate_next_action 447-509
generate_next_action(intent, s, observation) ==
    LET actions == intent.actions
        executed_actions == {s.all_actions[i] : i \in 1..Len(s.all_actions)}
        \* 480-489: the two "continue" tests of the loop
        Skipped(i) ==
            \/ ActionKey(actions[i]) \in executed_actions
            \/ ActionKey(actions[i]) = s.last_action /\ ~Changed(observation)
        open == {i \in 1..Len(actions) : ~Skipped(i)}
        first == CHOOSE i \in open : \A j \in open : i <= j
    IN  IF actions = <<>>
        THEN [tool |-> "finish_task", args |-> "No remaining actions to execute",
              reason |-> "Action plan exhausted"]
        ELSE IF open # {}
        THEN [tool |-> actions[first].tool, args |-> actions[first].args,
              reason |-> "Next planned action"]
        ELSE [tool |-> "read_page", args |-> "", reason |-> "Re-observing page state"]

\* generate_next_action(intent, state, observation) is called; it reads its
\* arguments and assigns to none of them
select_action ==
    /\ call.fn = "generate_next_action"
    /\ result' = Returned("generate_next_action",
                          generate_next_action(call.intent, call.state, call.observation))
    /\ UNCHANGED <<call, orchVars, trackerVars>>

\* -------------------------------------------------------------------------
\* ------------------------------------------------------ the specifications
\* largest max_steps of a run of the longer graphs (agent_v3, test_agent)
MaxStepsLong == 2

OrchInit(rs, V, M) ==
    /\ active = rs
    /\ \E v \in [rs -> V], m \in [rs -> M] :
          st = [r \in RunIds |-> IF r \in rs THEN InitialState(v[r], m[r])
                                            ELSE InitialState("agent", 0)]
    /\ pc = [r \in RunIds |-> IF r \in rs THEN "start" ELSE "idle"]
    /\ exc = [r \in RunIds |-> FALSE]
    /\ cont = [r \in RunIds |-> "none"]
    /\ gh = [r \in RunIds |-> InitialHistory]
    /\ browser_instance = 0
    /\ browsers = <<>>
    /\ inflight = [r \in RunIds |-> 0]

\* an agentV2 state as its caller makes it, nothing observed or decided yet
TrackerInit(M) ==
    /\ \E m \in M : state = InitialAgentState(m)
    /\ last_observation = NoResult
    /\ execution_result = NoResult
    /\ decision = NoResult
    /\ progress = NoResult

\* no function is being called on its own
NoCall ==
    /\ call = [fn |-> "none"]
    /\ result = NoResult

\* what every graph shares: run_agent, the browser singleton, the tools
Common(r) ==
    \/ run_agent(r)
    \/ get_browser(r)
    \/ Browser_start_ok(r)
    \/ Browser_start_fails(r)
    \/ tool_return(r)

\* the finish_task tool, in the graphs whose tool node can run it
FinishTool(r) ==
    \/ cleanup_browser(r)
    \/ cleanup_browser_done(r)

\* one run of agent.py
Init == OrchInit({"r1"}, {"agent"}, 0..MaxSteps) /\ TrackerInit({1}) /\ NoCall

Next ==
    \E r \in RunIds :
        \/ Common(r)
        \/ agent_node(r)
        \/ agent_route(r)
        \/ finally_close(r)

Spec == Init /\ [][Next]_vars

\* one run of main.py
InitMain == OrchInit({"r1"}, {"main"}, 0..MaxSteps) /\ TrackerInit({1}) /\ NoCall

NextMain ==
    \E r \in RunIds :
        \/ Common(r)
        \/ FinishTool(r)
        \/ main_agent_node(r)
        \/ agent_route(r)
        \/ finally_close(r)

SpecMain == InitMain /\ [][NextMain]_vars

\* one run of agent_v3.py
InitV3 == OrchInit({"r1"}, {"v3"}, 1..MaxStepsLong) /\ TrackerInit({1}) /\ NoCall

NextV3 ==
    \E r \in RunIds :
        \/ Common(r)
        \/ FinishTool(r)
        \/ planner_node(r)
        \/ v3_agent_node(r)
        \/ agent_route(r)
        \/ extract_dom_node(r)
        \/ choose_element_node(r)
        \/ executor_skip(r)
        \/ executor_node(r)
        \/ verifier_node(r)
        \/ finally_close(r)

SpecV3 == InitV3 /\ [][NextV3]_vars

\* one run of test_agent.py
InitTest == OrchInit({"r1"}, {"test"}, 1..MaxStepsLong) /\ TrackerInit({1}) /\ NoCall

NextTest ==
    \E r \in RunIds :
        \/ Common(r)
        \/ FinishTool(r)
        \/ intent_parser_node(r)
        \/ execute_step_node(r)
        \/ execute_step_call(r)
        \/ tool_failed(r)
        \/ read_and_filter_node(r)
        \/ test_route(r)
        \/ final_extraction_node(r)
        \/ update_progress_node(r)
        \/ replanning_node(r)

SpecTest == InitTest /\ [][NextTest]_vars

\* two runs of agent.py in one event loop (asyncio.gather of two run_agent calls)
MaxStepsConc == 2

InitConc == OrchInit({"r1", "r2"}, {"agent"}, 0..MaxStepsConc) /\ TrackerInit({1}) /\ NoCall

SpecConc == InitConc /\ [][Next]_vars

\* two runs of main.py in one process, long enough for each to read a page
\* and then call finish_task (whose tool runs cleanup_browser)
MaxStepsCleanup == 3

InitMainConc ==
    OrchInit({"r1", "r2"}, {"main"}, {MaxStepsCleanup}) /\ TrackerInit({1}) /\ NoCall

SpecMainConc == InitMainConc /\ [][NextMain]_vars

\* the functions of agentV2.py, called in any order by their caller
InitTracker == OrchInit({}, {"agent"}, {0}) /\ TrackerInit(0..MaxBudget) /\ NoCall

NextTracker ==
    \/ execute_action
    \/ observe
    \/ check_progress
    \/ track

SpecTracker == InitTracker /\ [][NextTracker]_vars

\* one function called on arguments of the caller's choice
Calls ==
    ClassifierCalls \cup ReplanCalls \cup SelectCalls \cup ObserveCalls \cup PlanCalls

InitFunctions ==
    /\ OrchInit({}, {"agent"}, {0})
    /\ TrackerInit({1})
    /\ call \in Calls
    /\ result = NoResult

NextFunctions ==
    \/ analyze
    \/ categorize
    \/ execute_tool
    \/ replan
    \/ select_action
    \/ observe_twice
    \/ parse_plan

SpecFunctions == InitFunctions /\ [][NextFunctions]_vars

\* ================================================================= claims

\* C1: a run never performs more than max_steps orchestrator cycles (passes
\* through the node that executes actions), whatever the oracle and the
\* tools answer.
C1_CyclesWithinBudget ==
    \A r \in active : gh[r].cycles <= st[r].max_steps

\* C2: steps never decreases, and a completed cycle that issued an action
\* has increased steps by exactly 1 when control is back at selection.
CycleEnds(r) ==
    /\ pc'[r] # pc[r]
    /\ pc'[r] = (IF st[r].variant = "test" THEN "read_and_validate" ELSE "agent")
    /\ gh'[r].issued

C2_OneStepPerCycle ==
    [][\A r \in active :
          /\ st'[r].steps >= st[r].steps
          /\ CycleEnds(r) => st'[r].steps = gh'[r].base + 1]_vars

\* C3: a successful tool result resets consecutive_failures to 0, a failed
\* one adds exactly 1, the counter never exceeds 3, and once it is 3 the run
\* makes no further oracle call and executes no further tool.
C3_FailureStreak ==
    [][\A r \in active :
          LET executed == gh'[r].tool_execs = gh[r].tool_execs + 1
              before == st[r].consecutive_failures
              after == st'[r].consecutive_failures
          IN  /\ after <= 3
              /\ (executed /\ gh'[r].last_status = "success") => after = 0
              /\ (executed /\ gh'[r].last_status = "failure") => after = before + 1
              /\ ~executed => after = before
              /\ before >= 3 => /\ gh'[r].oracle_calls = gh[r].oracle_calls
                                /\ gh'[r].tool_execs = gh[r].tool_execs]_vars

\* C3's case: three failures in a row ended a run that had budget left
C3_Witness ==
    \E r \in active :
        /\ Done(r)
        /\ st[r].consecutive_failures = 3
        /\ st[r].steps < st[r].max_steps

\* C4: once the action selector has answered finish_task, the run executes
\* no browser action and makes no further oracle call.
C4_FinishIsTerminal ==
    \A r \in active : gh[r].after_finish = 0

\* C5: when run_agent is over (returned or raised), no Browser is left
\* started: close() has been called on it.
C5_ClosedOnExit ==
    \A r \in active :
        Done(r) => \A b \in 1..Len(browsers) : browsers[b] \notin {"starting", "started"}

\* C6: two runs of one process never await operations of the same Browser
\* object at the same time.
Operating(r) ==
    /\ inflight[r] # 0
    /\ pc[r] \in {"tool_wait", "extract_wait", "executor_wait", "read_wait"}

C6_OneRunPerBrowser ==
    \A r1 \in active, r2 \in active :
        (r1 # r2 /\ Operating(r1) /\ Operating(r2)) => inflight[r1] # inflight[r2]

\* the preview of the observation the caller holds contains a success keyword
PreviewHasKeyword ==
    LET preview == IF last_observation.kind = "none" THEN <<>>
                   ELSE last_observation.content_preview
    IN  \E i \in 1..Len(SuccessKeywords), j \in 1..Len(preview) :
            Lower(preview[j]) = SuccessKeywords[i]

\* C7: progress_checker's verdict is the first rule that matches, in the
\* order budget, success keyword, unchanged page, last three keys identical,
\* low remaining budget, continue.
C7_RuleOrder ==
    decision.kind = "return" =>
        LET a == state.all_actions
            n == Len(a)
            r1 == state.steps >= state.max_steps
            r2 == PreviewHasKeyword
            r3 == last_observation.kind # "none" /\ ~last_observation.changed
            r4 == n >= 3 /\ a[n] = a[n - 1] /\ a[n - 1] = a[n - 2]
            r5 == (state.max_steps - state.steps) * 100 < 15 * state.max_steps
            Is(d, c) == decision.decision = d /\ decision.confidence = c
        IN  /\ r1 => Is("finish", 95)
            /\ (~r1 /\ r2) => Is("finish", 90)
            /\ (~r1 /\ ~r2 /\ r3) => Is("retry", 70)
            /\ (~r1 /\ ~r2 /\ ~r3 /\ r4) => Is("replan", 85)
            /\ (~r1 /\ ~r2 /\ ~r3 /\ ~r4 /\ r5) => Is("replan", 60)
            /\ (~r1 /\ ~r2 /\ ~r3 /\ ~r4 /\ ~r5) => Is("continue", 80)

\* C7's case: the last three keys are identical and the remaining budget is
\* low at once, on a changed page without keyword; the repetition rule answered
C7_Witness ==
    /\ decision.kind = "return"
    /\ decision.reason = "Repeated identical actions with no success"
    /\ state.steps < state.max_steps
    /\ (state.max_steps - state.steps) * 100 < 15 * state.max_steps
    /\ last_observation.kind # "none" /\ last_observation.changed

\* C8: at steps >= max_steps every verdict of the tracker (track_progress and
\* progress_checker) is finish.
C8_FinishAtBudget ==
    state.steps >= state.max_steps =>
        /\ progress.kind # "none" => (progress.kind = "return" /\ progress.status = "finish")
        /\ decision.kind # "none" => decision.decision = "finish"

\* some key occurs at least 3 times among the last 4 ledger entries
LoopInLastFour ==
    LET a == state.all_actions
        n == Len(a)
    IN  /\ n >= 4
        /\ \E i \in (n - 3)..n : Cardinality({j \in (n - 3)..n : a[j] = a[i]}) >= 3

LastThreeIdentical ==
    LET a == state.all_actions
        n == Len(a)
    IN  n >= 3 /\ a[n] = a[n - 1] /\ a[n - 1] = a[n - 2]

\* C9 as the spec states it: with a key at least 3 times in the last 4
\* entries, every verdict of the tracker is retry or replan.
C9_LoopNeverContinues ==
    LoopInLastFour =>
        /\ progress.kind # "none" =>
              (progress.kind = "return" /\ progress.status \in {"retry", "replan"})
        /\ decision.kind # "none" => decision.decision \in {"retry", "replan"}

\* C9, as the code has it: while budget is left, track_progress answers retry
\* for a key that occurs at least 3 times in the last 4 entries, and
\* progress_checker answers retry or replan when the last 3 keys are identical
\* and the preview holds no success keyword.
C9_LoopRuleWithinBudget ==
    state.steps < state.max_steps =>
        /\ (progress.kind # "none" /\ LoopInLastFour) =>
              (progress.kind = "return" /\ progress.status = "retry")
        /\ (/\ decision.kind # "none"
            /\ LastThreeIdentical
            /\ ~PreviewHasKeyword) =>
              decision.decision \in {"retry", "replan"}

\* C9's case: three of the last four keys are the same, the last three are
\* not, budget is left, and track_progress has answered retry
C9_Witness ==
    /\ progress.kind = "return"
    /\ progress.status = "retry"
    /\ LoopInLastFour
    /\ ~LastThreeIdentical
    /\ state.steps < state.max_steps

\* C10: every evaluation of track_progress reports a progress_pct, equal to
\* min(steps / max_steps * 100, 100) and so at most 100.
C10_PctReported ==
    progress.kind # "none" =>
        /\ progress.kind = "return"
        /\ LET p == progress.progress_pct
           IN  /\ p.den > 0
               /\ p.num <= 100 * p.den
               /\ IF state.steps >= state.max_steps
                  THEN p.num = 100 * p.den
                  ELSE p.num * state.max_steps = state.steps * 100 * p.den

C12_FirstObservationChanged ==
    [][(last_observation.kind = "none" /\ last_observation'.kind # "none") =>
          /\ last_observation'.changed
          /\ last_observation'.change_reason = "initial observation"]_vars

\* the function called on its own was f, and it has returned
ReturnedBy(f) == result.kind = "return" /\ result.fn = f

\* C13: with a previous observation, the new one has changed = FALSE exactly
\* when content_hash, url and title all equal the previous ones, and when it
\* has changed the reason names the first difference in the order content
\* hash, URL, title.
C13_ChangeDetection ==
    ReturnedBy("observe_browser_state") =>
        LET old == result.value[1]
            new == result.value[2]
            sameHash == new.content_hash = old.content_hash
            sameUrl == new.url = old.url
            sameTitle == new.title = old.title
        IN  /\ ~new.changed <=> (sameHash /\ sameUrl /\ sameTitle)
            /\ new.changed =>
                  new.change_reason =
                      IF ~sameHash THEN "page content changed"
                      ELSE IF ~sameUrl THEN "URL changed"
                      ELSE "title changed"
            /\ ~new.changed => new.change_reason = "no significant change"

\* C13's case: an observation whose hash and URL equal the previous ones and
\* whose title does not
C13_Witness ==
    /\ ReturnedBy("observe_browser_state")
    /\ result.value[2].content_hash = result.value[1].content_hash
    /\ result.value[2].url = result.value[1].url
    /\ result.value[2].title # result.value[1].title
    /\ result.value[2].change_reason = "title changed"

\* C14: content_hash is decided by the hashed prefix of the output: two
\* calls on outputs with the same prefix return the same content_hash, and
\* two calls on outputs that differ inside the prefix return different ones.
C14_HashSeparatesPrefixes ==
    ReturnedBy("observe_browser_state") =>
        LET Head3000(page) == SubSeq(page, 1, IF Len(page) < HashLines
                                              THEN Len(page) ELSE HashLines)
            samePrefix == Head3000(call.pages[1]) = Head3000(call.pages[2])
        IN  samePrefix <=>
                result.value[1].content_hash = result.value[2].content_hash

\* C15: categorize_failure answers with the first match in the order
\* "timeout", "not find" or "no such element", "selector", "navigation",
\* "captcha", and unknown when none matches; an output with both "timeout"
\* and "captcha" is a timeout.
C15_FailurePriority ==
    ReturnedBy("categorize_failure") =>
        LET Has(k) == \E i \in 1..Len(call.output) : Lower(call.output[i]) = k
            table == << <<{"timeout"}, "timeout">>,
                        <<{"not find", "no such element"}, "element_not_found">>,
                        <<{"selector"}, "selector_error">>,
                        <<{"navigation"}, "navigation_error">>,
                        <<{"captcha"}, "blocked_by_captcha">> >>
            hits == {i \in 1..Len(table) : \E k \in table[i][1] : Has(k)}
        IN  /\ hits = {} => result.value = "unknown"
            /\ hits # {} =>
                  result.value = table[CHOOSE i \in hits : \A j \in hits : i <= j][2]
            /\ (Has("timeout") /\ Has("captcha")) => result.value = "timeout"

\* C15's case: an output that holds "captcha" and then "Timeout" has been
\* categorised
C15_Witness ==
    /\ ReturnedBy("categorize_failure")
    /\ call.output = <<"captcha", "Timeout">>
    /\ result.value = "timeout"

\* C16: a tool output that holds one of "error", "failed", "could not",
\* "timeout", "not find" (in any case, anywhere) is handled as a failed
\* action: the failure streak grows by 1 and the action is not added to the
\* successful ones.
C16_FailureTokensFail ==
    (/\ ReturnedBy("tool_execution_node")
     /\ \E i \in 1..Len(call.output) :
           Lower(call.output[i]) \in {"error", "failed", "could not", "timeout", "not find"}) =>
        /\ result.value.consecutive_failures = call.state.consecutive_failures + 1
        /\ result.value.successful_actions = call.state.successful_actions

\* C17: replan_goal answers with the strategy of the first rule that matches
\* the lower-cased failure reason, in the order "click" or "selector",
\* "page did not change", "repeated", "low remaining", and "reset context"
\* when none matches; a reason with "click" and "selector" gives "broaden
\* selectors and re-read page".
C17_StrategyPriority ==
    ReturnedBy("replan_goal") =>
        LET reason == call.failure_reason
            Has(k) == \E i \in 1..Len(reason) : Lower(reason[i]) = k
            table == << <<{"click", "selector"}, "broaden selectors and re-read page">>,
                        <<{"page did not change"}, "re-observe and search">>,
                        <<{"repeated"}, "change approach">>,
                        <<{"low remaining"}, "goal simplification">> >>
            hits == {i \in 1..Len(table) : \E k \in table[i][1] : Has(k)}
        IN  /\ hits = {} => result.value.strategy = "reset context"
            /\ hits # {} =>
                  result.value.strategy =
                      table[CHOOSE i \in hits : \A j \in hits : i <= j][2]
            /\ reason = <<"click", "selector">> =>
                  result.value.strategy = "broaden selectors and re-read page"

\* C17's case: the reason "click ...: selector ..." has been answered
C17_Witness ==
    /\ ReturnedBy("replan_goal")
    /\ call.failure_reason = <<"click", "selector">>
    /\ result.value.strategy = "broaden selectors and re-read page"

\* C18: whatever the failure reason, the goal replan_goal returns is not the
\* original goal, and the goal in the state it was handed stays as it was.
C18_GoalRewritten ==
    [][(result'.kind = "return" /\ result'.fn = "replan_goal") =>
          /\ result'.value.new_goal # call.state.goal
          /\ call'.state = call.state]_vars

\* C18's case: no rule matched the reason and the fallback has answered
C18_Witness ==
    /\ ReturnedBy("replan_goal")
    /\ result.value.strategy = "reset context"
    /\ call.failure_reason = <<"failed">>
    /\ result.value.new_goal # call.state.goal

\* the key of the i-th candidate of the plan handed to generate_next_action
CandidateKey(i) ==
    LET a == call.intent.actions[i]
    IN  CASE a.tool = "click" -> "click|#a"
          [] a.tool = "read_page" -> "read_page|"
          [] OTHER -> "finish_task|done"

Visited(i) == \E j \in 1..Len(call.state.all_actions) :
                  call.state.all_actions[j] = CandidateKey(i)

\* the observation handed to generate_next_action reports changed = FALSE
ReportsUnchanged ==
    call.observation.kind # "none" /\ ~call.observation.changed

\* C19: generate_next_action skips a candidate only when its key is in the
\* ledger and the observation reports changed = FALSE, and returns the first
\* candidate of the plan that is not skipped (so a visited candidate is
\* returned again once the page has changed).
C19_SkipOnlyWhenUnchanged ==
    (ReturnedBy("generate_next_action") /\ call.intent.actions # <<>>) =>
        LET actions == call.intent.actions
            kept == {i \in 1..Len(actions) : ~(Visited(i) /\ ReportsUnchanged)}
        IN  kept # {} =>
                LET first == CHOOSE i \in kept : \A j \in kept : i <= j
                IN  /\ result.value.tool = actions[first].tool
                    /\ result.value.args = actions[first].args

\* C20 as the spec states it: generate_next_action returns finish exactly
\* when the plan is empty.
C20_FinishIffPlanEmpty ==
    ReturnedBy("generate_next_action") =>
        (result.value.tool = "finish_task" <=> call.intent.actions = <<>>)

\* C20, as the code has it: every call returns one action and changes none
\* of its arguments; the answer is the plan-exhausted finish exactly when the
\* plan is empty; a non-empty plan whose candidates are all excluded (in the
\* ledger, or the last action on an unchanged page) is answered with
\* read_page and empty args; and finish_task is otherwise returned only as
\* a candidate of the plan that is not excluded.
C20_AlwaysOneAction ==
    [][(result'.kind = "return" /\ result'.fn = "generate_next_action") =>
          LET actions == call.intent.actions
              r == result'.value
              Excluded(i) ==
                  \/ Visited(i)
                  \/ CandidateKey(i) = call.state.last_action /\ ReportsUnchanged
              idx == 1..Len(actions)
          IN  /\ DOMAIN r = {"tool", "args", "reason"}
              /\ r.reason = "Action plan exhausted" <=> actions = <<>>
              /\ actions = <<>> => r.tool = "finish_task"
              /\ (actions # <<>> /\ \A i \in idx : Excluded(i)) =>
                    (r.tool = "read_page" /\ r.args = "")
              /\ (actions # <<>> /\ r.tool = "finish_task") =>
                    \E i \in idx : /\ ~Excluded(i)
                                   /\ actions[i].tool = "finish_task"
                                   /\ \A j \in 1..(i - 1) : Excluded(j)
              /\ call' = call]_vars

\* C20's case: every candidate of a non-empty plan was excluded and the
\* call came back with the observe action
C20_Witness ==
    /\ ReturnedBy("generate_next_action")
    /\ Len(call.intent.actions) = 2
    /\ \A i \in 1..2 : Visited(i)
    /\ result.value.tool = "read_page"
    /\ result.value.args = ""

\* C21: after the planning phase the run has a non-empty plan: when the
\* planner's oracle call fails or yields zero steps a fallback step is
\* installed, so the node after planning starts with at least one step.
C21_PlanNonEmptyAfterPlanning ==
    [][\A r \in active :
          pc[r] = "intent_parser" /\ pc'[r] # "intent_parser"
              => st'[r].current_plan # <<>>]_vars

\* C22: once the planner's oracle invocation has failed (last_action is
\* "intent_parse_failed", set only by that failure) the run issues no
\* further oracle call and starts no browser action.
C22_NothingAfterFailedOracle ==
    [][\A r \in active :
          st[r].last_action = "intent_parse_failed"
              => /\ gh'[r].oracle_calls = gh[r].oracle_calls
                 /\ gh'[r].tool_execs = gh[r].tool_execs]_vars

\* C23: a tool that returns a failure string or raises does not abort the
\* caller: execute_action returns success = false, and whether the tool
\* succeeded or failed it appends the action key to the ledger, sets
\* last_action to it and adds exactly 1 to steps.
C23_FailureString(output) ==
    \E i \in 1..Len(output) :
        Lower(output[i]) \in {"error", "failed", "could not", "timeout", "not find"}

C23_FailuresAreAbsorbed ==
    [][state' # state =>
          /\ execution_result'.kind = "return"
          /\ state'.steps = state.steps + 1
          /\ state'.all_actions = Append(state.all_actions, state'.last_action)
          /\ (execution_result'.error = "str(e)"
                \/ C23_FailureString(execution_result'.output))
                 => ~execution_result'.success]_vars

\* C24: a record enters the ledger only once its action's execution has
\* completed, so the ledger never holds more records than there are
\* completed executions (none of a running or never executed action).
C24_RecordedAfterExecution ==
    \A r \in active : Len(st[r].all_actions) <= gh[r].tool_execs

\* C25: the plan cursor satisfies 0 <= cursor <= len(plan), never moves
\* backward within a plan, and is 0 whenever a plan is installed (the only
\* step that may lower it is the planner's).
C25_CursorMonotone ==
    [][\A r \in active :
          /\ 0 <= st'[r].current_plan_step
          /\ st'[r].current_plan_step <= st'[r].plan
          /\ st'[r].current_plan_step < st[r].current_plan_step
                => pc[r] = "planner" /\ st'[r].current_plan_step = 0
          /\ st'[r].plan # st[r].plan
                => pc[r] = "planner" /\ st'[r].current_plan_step = 0]_vars

\* the verifier has said yes to every step of the longest plan: the cursor
\* has reached len(plan) and the run is back at action selection
C25_Witness ==
    \E r \in active :
        /\ st[r].plan = MaxPlan
        /\ st[r].current_plan_step = st[r].plan
        /\ pc[r] = "agent"

C27_InCleanup(r) ==
    \/ pc[r] \in {"finally", "closing"}
    \/ pc[r] = "start_browser" /\ cont[r] = "finally"

C27_CleanupFailureIsOnlyLogged ==
    [][\A r \in active :
          C27_InCleanup(r) =>
              /\ exc'[r] = exc[r]
              /\ pc'[r] = "raised" => exc[r]]_vars

\* C28: the Browser is a lazily created singleton of the process: one is
\* created only inside get_browser and only when the process holds none, a
\* caller that receives a Browser receives the process's instance, and the
\* process lets go of its instance only by cleaning that instance up - so
\* that no second Browser is created while an earlier one was not cleaned up.
C28_CleansUp(r, b) ==
    r \in active /\ pc[r] = "cleanup_wait" /\ pc'[r] # "cleanup_wait" /\ inflight[r] = b

C28_LazySingleton ==
    [][/\ Len(browsers') > Len(browsers)
            => /\ browser_instance = 0
               /\ browser_instance' = Len(browsers')
               /\ \E r \in active : pc[r] \in GetBrowserSites
       /\ \A r \in active :
             inflight'[r] # inflight[r] /\ inflight'[r] # 0
                 => inflight'[r] = browser_instance'
       /\ browser_instance # 0 /\ browser_instance' # browser_instance
            => \E r \in active : C28_CleansUp(r, browser_instance)]_vars

\* C29: a tool call that names a tool which does not exist is a hard
\* failure of the run: once such a call has been taken up (it is the run's
\* last_action) the run asks the oracle nothing more, executes no tool and
\* does not enter replanning.
C29_UnknownToolIsFatal ==
    [][\A r \in active :
          st[r].last_action \in TestToolCalls \ ToolNames
              => /\ gh'[r].oracle_calls = gh[r].oracle_calls
                 /\ gh'[r].tool_execs = gh[r].tool_execs
                 /\ pc'[r] # "replanning"]_vars

\* C30: when the next action is selected, the stored page is newer than
\* every state-altering action executed so far: the k-th record of the
\* ledger was executed in cycle k, so a click in cycle k needs a page that
\* was read in a later cycle.
C30_StateAltering == {"click_element"}

C30_Selects(r) ==
    pc[r] = "agent" /\ gh'[r].oracle_calls > gh[r].oracle_calls

C30_ObservedBeforeSelection ==
    [][\A r \in active :
          C30_Selects(r) =>
              \A k \in 1..Len(st[r].all_actions) :
                  st[r].all_actions[k] \in C30_StateAltering
                      => st[r].page_content > k]_vars

\* C31: plan steps are consumed front to back: a step that changes the
\* remaining plan either removes exactly its first step (the end of an
\* execution cycle) or installs a new plan (planner, replanning); so the
\* remaining plan is always a suffix of the plan last installed.
C31_IsSuffix(t, seq) ==
    \E k \in 0..Len(seq) : t = SubSeq(seq, k + 1, Len(seq))

C31_FrontToBack ==
    [][\A r \in active :
          /\ \E n \in 0..MaxPlan : C31_IsSuffix(st'[r].current_plan, PlanOf(n))
          /\ st'[r].current_plan # st[r].current_plan
                => \/ pc[r] \in {"intent_parser", "replanning"}
                   \/ /\ pc[r] = "execute_step_loop"
                      /\ st[r].current_plan # <<>>
                      /\ st'[r].current_plan = Tail(st[r].current_plan)]_vars

\* the first step of the longest plan has been consumed, the rest remains
C31_Witness ==
    \E r \in active :
        /\ st[r].current_plan = Tail(PlanOf(MaxPlan))
        /\ pc[r] = "read_and_validate"
        /\ Len(st[r].all_actions) > 0

\* C32: the planner's parsing yields one step per non-blank line, in line
\* order; every step is non-empty, and it is its line without the leading
\* list marker ("-") and without the surrounding whitespace - nothing else
\* of the line is removed.
C32_NonBlank(content) ==
    SelectSeq(content, LAMBDA line : Strip(line, Whitespace) # <<>>)

C32_WithoutMarker(line) ==
    LET text == Strip(line, Whitespace)
    IN  IF text[1] = "-" THEN Strip(Tail(text), Whitespace) ELSE text

C32_OneStepPerLine ==
    ReturnedBy("planner_node") =>
        LET kept == C32_NonBlank(call.content)
        IN  /\ Len(result.value) = Len(kept)
            /\ \A i \in 1..Len(kept) :
                  /\ result.value[i] # <<>>
                  /\ result.value[i] = C32_WithoutMarker(kept[i])

\* C33: observe_browser_state takes url and title from the lines that start
\* with "url:" / "title:" in any letter case, and reports "unknown" exactly
\* when the page has no such line with a value.
C33_UrlLines == {"URL: a", "URL: b", "url: a"}

C33_TitleLines == {"Title: t", "Title: u", "title: t"}

C33_HasLine(page, lines) == \E i \in 1..Len(page) : page[i] \in lines

C33_CaseInsensitiveFields ==
    ReturnedBy("observe_browser_state") =>
        LET page == call.pages[1]
            first == result.value[1]
        IN  /\ first.url = "unknown" <=> ~C33_HasLine(page, C33_UrlLines)
            /\ first.title = "unknown" <=> ~C33_HasLine(page, C33_TitleLines)

\* C34: once the other run of the process has ended and its cleanup has
\* closed the browser, a run that calls get_browser for a tool does not
\* receive the browser that this cleanup closed.
C34_ReceivesForTool(r) ==
    /\ pc[r] \in ToolSites \cup {"start_browser"}
    /\ pc'[r] = "tool_wait"
    /\ inflight'[r] # 0

C34_FreshBrowserForNextRun ==
    [][\A r \in active :
          /\ \A q \in active \ {r} : pc[q] = "returned"
          /\ C34_ReceivesForTool(r)
          => browsers'[inflight'[r]] \notin {"closed", "close_error"}]_vars

\* C35: whenever get_browser returns an instance to a caller, that
\* instance's start() is not still in progress - also for a caller that
\* arrives while another caller is awaiting start().
C35_Returns(r) ==
    /\ pc[r] \in GetBrowserSites \cup {"start_browser"}
    /\ pc'[r] \in {AfterGetBrowser[site] : site \in GetBrowserSites}
    /\ inflight'[r] # 0

C35_ReturnedBrowserIsStarted ==
    [][\A r \in active :
          C35_Returns(r) => browsers'[inflight'[r]] # "starting"]_vars

\* C36: in agent.py's loop len(all_actions) <= steps <= max_steps always
\* holds, and the tool call the oracle chose in the cycle that brought steps
\* to max_steps is never executed: with steps = max_steps the run is never
\* in its tool node.
C36_InToolNode(r) ==
    \/ pc[r] \in {"tools", "tool_wait"}
    \/ pc[r] = "start_browser" /\ cont[r] = "tools"

C36_BudgetInvariant ==
    \A r \in active :
        /\ Len(st[r].all_actions) <= st[r].steps
        /\ st[r].steps <= st[r].max_steps
        /\ st[r].steps = st[r].max_steps => ~C36_InToolNode(r)

\* the oracle chose click_element in the last cycle of the budget, three
\* earlier tool calls were executed, and the run has ended without the fourth
C36_Witness ==
    \E r \in active :
        /\ st[r].steps = st[r].max_steps
        /\ st[r].max_steps = MaxSteps
        /\ st[r].last_msg = "click_element"
        /\ Len(st[r].all_actions) = MaxSteps - 1
        /\ pc[r] = "returned"


\* C37 (agent_v3.py): once agent_node has found steps >= max_steps (it then
\* asks the oracle nothing and sets last_action to "max_steps_reached"), the
\* run ends without entering the tool node again, whatever the last message
\* of the history is.
C37_InToolNode(r) ==
    \/ pc[r] \in {"tools", "tool_wait"}
    \/ pc[r] = "start_browser" /\ cont[r] = "tools"

C37_NoToolAfterBudget ==
    \A r \in active :
        (st[r].variant = "v3" /\ st[r].last_action = "max_steps_reached")
            => ~C37_InToolNode(r)


\* C38 (main.py, agent_v3.py): the cleanup at the end of a run launches no
\* browser: when finish_task has run cleanup_browser and the singleton is
\* None again, the finally block creates no new Browser instance.
C38_CleanupLaunchesNothing ==
    [][\A r \in active :
          (/\ pc[r] = "finally"
           /\ st[r].last_action = "finish_task"
           /\ browser_instance = 0
           /\ browsers # <<>> /\ browsers[Len(browsers)] = "closed")
              => Len(browsers') = Len(browsers)]_vars


\* C39 (agent.py): a tool result classified BLOCKED or UNKNOWN resets
\* consecutive_failures to 0 and clears last_error and failure_type as a
\* SUCCESS does, but adds nothing to successful_actions; failure_type and
\* last_error are set exactly when the most recent result was a FAILURE.
C39_Cleared(s) ==
    /\ s.consecutive_failures = 0
    /\ s.failure_type = "None"
    /\ s.last_error = <<>>

C39_NeitherResetsLikeSuccess ==
    [][\A r \in active :
          LET executed == gh'[r].tool_execs = gh[r].tool_execs + 1
              status == gh'[r].last_status
          IN  /\ (executed /\ status \in {"blocked", "unknown"}) =>
                    /\ C39_Cleared(st'[r])
                    /\ st'[r].successful_actions = st[r].successful_actions
              /\ (executed /\ status = "success") =>
                    /\ C39_Cleared(st'[r])
                    /\ st'[r].successful_actions =
                          Append(st[r].successful_actions, st[r].last_msg)
              /\ st'[r].failure_type # "None" <=> status = "failure"
              /\ st'[r].last_error # <<>> <=> status = "failure"]_vars

\* C39's case: a blocked result came back after earlier tool executions and
\* left the failure fields cleared and the list of successes empty
C39_Witness ==
    \E r \in active :
        /\ gh[r].last_status = "blocked"
        /\ gh[r].tool_execs >= 2
        /\ C39_Cleared(st[r])
        /\ st[r].successful_actions = <<>>
        /\ Len(st[r].all_actions) = gh[r].tool_execs


\* C40 (agentV2.py): for a tool name that is not in the tool map,
\* execute_action returns success = false with an "Unknown tool" error and
\* leaves the run state as it was: steps, all_actions and last_action keep
\* their values.
C40_UnknownToolLeavesState ==
    [][(/\ execution_result'.kind = "return"
        /\ execution_result'.error = "Unknown tool")
          => /\ ~execution_result'.success
             /\ execution_result'.output = <<>>
             /\ state'.steps = state.steps
             /\ state'.all_actions = state.all_actions
             /\ state'.last_action = state.last_action]_vars

\* C40's case: an unknown tool was asked for after known ones had run, and
\* the state still shows the last known action
C40_Witness ==
    /\ execution_result.kind = "return"
    /\ execution_result.error = "Unknown tool"
    /\ state.steps >= 2
    /\ Len(state.all_actions) = state.steps
    /\ state.last_action \in ActionKeys
    /\ state.last_action = state.all_actions[Len(state.all_actions)]

====
